---- MODULE Spec2Model ----
(***************************************************************************)
(* Model of the TODO List backend core:                                    *)
(*   - utils/database : getPool, dbRequest (src/unnamed/part_000)          *)
(*   - middleware/crud : CrudController.validate                           *)
(*   - middleware/error: errorMiddleware                                   *)
(* JavaScript is single-threaded with cooperative suspension at `await`;   *)
(* every action below is one run-to-completion segment between two         *)
(* suspension points.                                                      *)
(***************************************************************************)
EXTENDS Integers, Sequences, FiniteSets, TLC

VARIABLES
    pool,           \* database.ts: let pool (0 is null, n > 0 the n-th pool created)
    pc,             \* per getPool caller: "idle" | "connecting" | "returned" | "threw"
    got,            \* per caller: the pool its last getPool() resolved to (0: none)
    connectCalls,   \* number of sql.connect invocations so far
    poolsCreated,   \* number of pools sql.connect has handed out so far
    req,            \* the request given to CrudController: [params, query, body]
    vout,           \* what create/read/update/delete settled to
    nodeEnv,        \* process.env.NODE_ENV
    err,            \* the failure handed to errorMiddleware
    events,         \* ordered log reports and responses of the request
    response,       \* what res.status(..).json(..) sent
    dbArgs,         \* arguments of the dbRequest call
    dbpc,           \* position of the dbRequest call
    request,        \* the sql.Request dbRequest built: its scope and bound inputs
    dbOut           \* what dbRequest settled to

vars == <<pool, pc, got, connectCalls, poolsCreated, req, vout, nodeEnv, err,
          events, response, dbArgs, dbpc, request, dbOut>>

poolVars == <<pool, pc, got, connectCalls, poolsCreated>>
crudVars == <<req, vout>>
errVars  == <<nodeEnv, err, events, response>>
dbVars   == <<dbArgs, dbpc, request, dbOut>>

(***************************************************************************)
(* Bounds                                                                  *)
(***************************************************************************)
NumCallers  == 3   \* concurrent request tasks calling getPool
MaxConnects == 3   \* cap on sql.connect invocations in one run
MaxSets     == 2   \* result sets a routine returns
MaxLabels   == 2   \* length of resultSetNames

(***************************************************************************)
(* JavaScript values                                                       *)
(***************************************************************************)
Undefined == [t |-> "undefined"]
JsNull    == [t |-> "null"]
Str(s)    == [t |-> "string", s |-> s]
Num(n)    == [t |-> "number", n |-> n]

\* An object is a function from the keys it owns to their values.
Keys == {"id", "name"}
Has(o, k) == k \in DOMAIN o
Get(o, k) == IF Has(o, k) THEN o[k] ELSE Undefined

\* { ...a, ...b }: own keys of a, then own keys of b assigned over them.
Spread(a, b) == [k \in (DOMAIN a) \cup (DOMAIN b) |-> IF k \in DOMAIN b THEN b[k] ELSE a[k]]

Digits == {"0", "1", "2", "3"}
DigitOf(c) == CASE c = "0" -> 0 [] c = "1" -> 1 [] c = "2" -> 2 [] c = "3" -> 3

RECURSIVE Decimal(_)
Decimal(s) == IF s = <<>> THEN 0
              ELSE Decimal(SubSeq(s, 1, Len(s) - 1)) * 10 + DigitOf(s[Len(s)])

\* Number(v) as z.coerce.number() applies it; nan marks NaN.
ToNumber(v) ==
    CASE v.t = "number"    -> [nan |-> FALSE, n |-> v.n]
      [] v.t = "string"    -> IF \A i \in 1..Len(v.s) : v.s[i] \in Digits
                              THEN [nan |-> FALSE, n |-> Decimal(v.s)]
                              ELSE [nan |-> TRUE, n |-> 0]
      [] v.t = "null"      -> [nan |-> FALSE, n |-> 0]
      [] v.t = "undefined" -> [nan |-> TRUE, n |-> 0]

(***************************************************************************)
(* utils/zodValidation and the schema's parseAsync                         *)
(***************************************************************************)
ZNameMax == 100

FieldOk(v)      == [ok |-> TRUE, out |-> v, code |-> "none"]
FieldIssue(c)   == [ok |-> FALSE, out |-> Undefined, code |-> c]

\* zFK = z.coerce.number().int().positive()
zFK(v) == LET c == ToNumber(v) IN
          IF c.nan THEN FieldIssue("invalid_type")
          ELSE IF c.n > 0 THEN FieldOk(Num(c.n))
          ELSE FieldIssue("too_small")

\* zName = z.string().min(1).max(100)
zName(v) == IF v.t # "string" THEN FieldIssue("invalid_type")
            ELSE IF Len(v.s) < 1 THEN FieldIssue("too_small")
            ELSE IF Len(v.s) > ZNameMax THEN FieldIssue("too_big")
            ELSE FieldOk(v)

CheckField(type, v) == IF type = "zFK" THEN zFK(v) ELSE zName(v)

\* A schema is z.object(shape) over the validators above, or a schema one of
\* whose refinements/transforms throws a value of its own.
ObjectSchemas == { [kind |-> "object", shape |-> <<[key |-> "id", type |-> "zFK"]>>, thrown |-> "none"],
                   [kind |-> "object", shape |-> <<[key |-> "id", type |-> "zFK"],
                                                   [key |-> "name", type |-> "zName"]>>, thrown |-> "none"] }
ThrownValues  == {"undefined", "null", "Error"}
ThrowingSchemas == { [kind |-> "throws", shape |-> <<>>, thrown |-> t] : t \in ThrownValues }
Schemas == ObjectSchemas \cup ThrowingSchemas

ShapeKeys(shape) == { shape[i].key : i \in 1..Len(shape) }

RECURSIVE Issues(_, _, _)
Issues(shape, input, i) ==
    IF i > Len(shape) THEN <<>>
    ELSE LET r == CheckField(shape[i].type, Get(input, shape[i].key)) IN
         (IF r.ok THEN <<>> ELSE <<[path |-> shape[i].key, code |-> r.code]>>)
         \o Issues(shape, input, i + 1)

TypeOf(shape, k) == (CHOOSE i \in 1..Len(shape) : shape[i].key = k)

\* schema.parseAsync(params): resolves with the coerced, stripped object or
\* rejects with a ZodError (errors = the issues) or with whatever was thrown.
ParseAsync(schema, input) ==
    IF schema.kind = "throws"
    THEN [kind |-> "throw", thrown |-> schema.thrown, errors |-> <<>>, value |-> <<>>]
    ELSE LET issues == Issues(schema.shape, input, 1) IN
         IF issues # <<>>
         THEN [kind |-> "throw", thrown |-> "ZodError", errors |-> issues, value |-> <<>>]
         ELSE [kind |-> "ok", thrown |-> "none", errors |-> <<>>,
               value |-> [k \in ShapeKeys(schema.shape) |->
                            CheckField(schema.shape[TypeOf(schema.shape, k)].type, input[k]).out]]

(***************************************************************************)
(* middleware/crud : CrudController                                        *)
(***************************************************************************)
\* The spread written in the opposite order: path parameters would win.
MergeInputsPathLast(r) == Spread(Spread(r.body, r.query), r.params)

\* const params = { ...req.params, ...req.query, ...req.body }
MergeInputs(r) == Spread(Spread(r.params, r.query), r.body)

NoTuple == [kind |-> "none", schema |-> <<>>, input |-> <<>>, first |-> JsNull, second |-> JsNull]

ValidationFailure(details) ==
    [t |-> "object", statusCode |-> 400, code |-> "VALIDATION_ERROR",
     message |-> "Validation failed", details |-> details]

\* The catch block also filling the first slot with the unvalidated input.
ValidateBothSlots(r, schema, operation) ==
    LET params == Spread(Spread(r.params, r.query), r.body)
        parsed == ParseAsync(schema, params)
    IN [kind |-> "resolved", schema |-> schema, input |-> params,
        first |-> [t |-> "object",
                   credential |-> [idAccount |-> 1, idUser |-> 1],
                   params |-> IF parsed.kind = "ok" THEN parsed.value ELSE params],
        second |-> IF parsed.kind = "ok" THEN JsNull
                   ELSE ValidationFailure([t |-> "array", items |-> parsed.errors])]

\* CrudController.validate: the promise settles to a resolved tuple
\* [first, second], or rejects when the catch block itself throws.
Validate(r, schema, operation) ==
    LET params == MergeInputs(r)
        parsed == ParseAsync(schema, params)
    IN IF parsed.kind = "ok"
       THEN [kind |-> "resolved", schema |-> schema, input |-> params,
             first |-> [t |-> "object",
                        credential |-> [idAccount |-> 1, idUser |-> 1],
                        params |-> parsed.value],
             second |-> JsNull]
       ELSE IF parsed.thrown \in {"undefined", "null"}
       THEN \* error.errors on undefined/null: TypeError inside the catch block
            [kind |-> "rejected", schema |-> schema, input |-> params,
             first |-> JsNull, second |-> JsNull]
       ELSE [kind |-> "resolved", schema |-> schema, input |-> params,
             first |-> JsNull,
             second |-> ValidationFailure(
                 IF parsed.thrown = "ZodError"
                 THEN [t |-> "array", items |-> parsed.errors]
                 ELSE Undefined)]

Create(schema) == /\ vout.kind = "none"
                  /\ vout' = Validate(req, schema, "CREATE")
                  /\ UNCHANGED <<req, poolVars, errVars, dbVars>>

Read(schema) == /\ vout.kind = "none"
                /\ vout' = Validate(req, schema, "READ")
                /\ UNCHANGED <<req, poolVars, errVars, dbVars>>

Update(schema) == /\ vout.kind = "none"
                  /\ vout' = Validate(req, schema, "UPDATE")
                  /\ UNCHANGED <<req, poolVars, errVars, dbVars>>

Delete(schema) == /\ vout.kind = "none"
                  /\ vout' = Validate(req, schema, "DELETE")
                  /\ UNCHANGED <<req, poolVars, errVars, dbVars>>

\* Express hands params and query over as strings; a JSON body also holds numbers.
StrVals  == { Str(<<>>), Str(<<"1">>), Str(<<"2">>), Str(<<"3">>), Str(<<"x">>) }
BodyVals == StrVals \cup { Num(3) }
Objects(vals) == UNION { [D -> vals] : D \in SUBSET Keys }
Requests == [params : Objects(StrVals), query : Objects(StrVals), body : Objects(BodyVals)]

(***************************************************************************)
(* middleware/error : errorMiddleware                                      *)
(***************************************************************************)
Absent(v)  == [has |-> FALSE, v |-> v]
Present(v) == [has |-> TRUE, v |-> v]

MkErr(sc, c, m, st) == [statusCode |-> sc, code |-> c, message |-> m, stack |-> st]
NoErr == MkErr(Absent(0), Absent(""), Absent(""), Absent(""))

\* x || d for a number and for a string: 0 and "" are falsy like a missing field.
OrNum(x, d) == IF x.has /\ x.v # 0 THEN x.v ELSE d
OrStr(x, d) == IF x.has /\ x.v # "" THEN x.v ELSE d

\* const statusCode = err.statusCode || 500
StatusCodeOf(e) == OrNum(e.statusCode, 500)

\* Details attached whenever the environment is not production.
ErrorResponseNonProduction(e, env) ==
    [success |-> FALSE,
     error |-> [code |-> OrStr(e.code, "INTERNAL_SERVER_ERROR"),
                message |-> OrStr(e.message, "An unexpected error occurred"),
                details |-> IF env # "production" THEN e.stack ELSE Absent("")]]

\* const errorResponse: ErrorResponse = { success: false, error: {...}, timestamp }
\* The timestamp is the clock's reading and is left out of the body.
ErrorResponseOf(e, env) ==
    [success |-> FALSE,
     error |-> [code |-> OrStr(e.code, "INTERNAL_SERVER_ERROR"),
                message |-> OrStr(e.message, "An unexpected error occurred"),
                details |-> IF env = "development" THEN e.stack ELSE Absent("")]]

\* console.error('Error:', { code, message, path, method, stack })
MiddlewareLog(e, env) ==
    [kind |-> "log", by |-> "errorMiddleware",
     code |-> ErrorResponseOf(e, env).error.code,
     message |-> ErrorResponseOf(e, env).error.message]

SendEvent == [kind |-> "send", by |-> "errorMiddleware", code |-> "", message |-> ""]

\* The statements of errorMiddleware in their order: log, then respond.
MiddlewareEvents(e, env) == << MiddlewareLog(e, env), SendEvent >>

NoResponse == [sent |-> FALSE, status |-> 0, body |-> <<>>]

ErrorMiddleware == /\ ~response.sent
                   /\ events' = events \o MiddlewareEvents(err, nodeEnv)
                   /\ response' = [sent |-> TRUE, status |-> StatusCodeOf(err),
                                   body |-> ErrorResponseOf(err, nodeEnv)]
                   /\ UNCHANGED <<nodeEnv, err, poolVars, crudVars, dbVars>>

Envs == {"development", "production", "test", "unset"}

ErrObjects == { MkErr(sc, c, m, st) :
                  sc \in {Absent(0), Present(0), Present(400), Present(503)},
                  c  \in {Absent(""), Present(""), Present("EREQUEST")},
                  m  \in {Absent(""), Present(""), Present("boom")},
                  st \in {Absent(""), Present("trace")} }

(***************************************************************************)
(* utils/database : getPool                                                *)
(***************************************************************************)
Callers == 1..NumCallers

\* sql.connect(config.database) is invoked: the caller suspends on it.
ConnectInvoked == /\ connectCalls < MaxConnects
                  /\ connectCalls' = connectCalls + 1

\* pool = await sql.connect(...): the driver hands out a pool it has just
\* connected and the shared variable is assigned when the caller resumes.
ConnectResolved == /\ poolsCreated' = poolsCreated + 1
                   /\ pool' = poolsCreated + 1

\* getPool() up to its first suspension: if (!pool) await sql.connect(...);
\* otherwise return pool at once.
GetPool(c) ==
    /\ pc[c] \in {"idle", "returned", "threw"}
    /\ IF pool = 0
       THEN /\ ConnectInvoked
            /\ pc' = [pc EXCEPT ![c] = "connecting"]
            /\ got' = [got EXCEPT ![c] = 0]
       ELSE /\ pc' = [pc EXCEPT ![c] = "returned"]
            /\ got' = [got EXCEPT ![c] = pool]
            /\ UNCHANGED connectCalls
    /\ UNCHANGED <<pool, poolsCreated, crudVars, errVars, dbVars>>

\* The connect of caller c succeeds: pool is assigned and returned.
ConnectResolve(c) ==
    /\ pc[c] = "connecting"
    /\ ConnectResolved
    /\ got' = [got EXCEPT ![c] = pool']
    /\ pc' = [pc EXCEPT ![c] = "returned"]
    /\ UNCHANGED <<connectCalls, crudVars, errVars, dbVars>>

\* The connect of caller c fails: the assignment never runs, getPool rejects.
ConnectReject(c) ==
    /\ pc[c] = "connecting"
    /\ pc' = [pc EXCEPT ![c] = "threw"]
    /\ UNCHANGED <<pool, got, connectCalls, poolsCreated, crudVars, errVars, dbVars>>

(***************************************************************************)
(* utils/database : dbRequest                                              *)
(***************************************************************************)
ExpectedReturns == {"Single", "Multi", "None", "Other"}

RecordSets == { <<>>, <<"r1">>, <<"r2">>, <<"r2", "r1">> }

RECURSIVE SeqsUpTo(_, _)
SeqsUpTo(S, n) == IF n = 0 THEN { <<>> }
                  ELSE LET shorter == SeqsUpTo(S, n - 1) IN
                       shorter \cup { Append(q, x) : q \in shorter, x \in S }

\* What the routine returns: its ordered result sets.
RoutineResults == SeqsUpTo(RecordSets, MaxSets)

Labels == {"a", "b"}
NoNames == [given |-> FALSE, list |-> <<>>]
NameLists == {NoNames} \cup { [given |-> TRUE, list |-> l] : l \in SeqsUpTo(Labels, MaxLabels) }

Array(items) == [t |-> "array", items |-> items]

\* a[index] for a zero-based index: undefined past the end.
At(a, index) == IF index + 1 <= Len(a) THEN Array(a[index + 1]) ELSE Undefined

\* const result = await request.execute(routine): the driver's result object;
\* recordset is the first of recordsets and is undefined when there is none.
DriverResult(rs) == [recordsets |-> rs, recordset |-> At(rs, 0)]

\* resultSetNames.forEach((name, index) => namedResults[name] = result.recordsets[index])
RECURSIVE NamedResults(_, _, _, _)
NamedResults(names, recordsets, index, namedResults) ==
    IF index >= Len(names) THEN namedResults
    ELSE NamedResults(names, recordsets, index + 1,
                      Spread(namedResults,
                             [n \in {names[index + 1]} |-> At(recordsets, index)]))

\* The loop reading recordsets one place too far.
NameResultSetsOffByOne(resultSetNames, recordsets) ==
    NamedResults(resultSetNames, IF recordsets = <<>> THEN <<>> ELSE Tail(recordsets), 0, <<>>)

\* const namedResults = {}; resultSetNames.forEach(...); return namedResults
NameResultSets(resultSetNames, recordsets) == NamedResults(resultSetNames, recordsets, 0, <<>>)

Shaped(shape, v) == [kind |-> "value", shape |-> shape, v |-> v]
TypeErrorThrown  == [kind |-> "TypeError", shape |-> "none", v |-> <<>>]

\* switch (expectedReturn) { ... } over the driver's result
ShapeResult(expectedReturn, result, names) ==
    CASE expectedReturn = "Single" ->
            IF result.recordset.t = "undefined" THEN TypeErrorThrown
            ELSE IF Len(result.recordset.items) > 0
                 THEN Shaped("row", result.recordset.items[1])
                 ELSE Shaped("undefined", <<>>)
      [] expectedReturn = "Multi" ->
            IF names.given /\ Len(names.list) > 0
            THEN Shaped("named", NameResultSets(names.list, result.recordsets))
            ELSE Shaped("recordsets", result.recordsets)
      [] expectedReturn = "None" -> Shaped("null", <<>>)
      [] OTHER ->
            IF result.recordset.t = "undefined" THEN Shaped("undefined", <<>>)
            ELSE Shaped("recordset", result.recordset.items)

DriverErrors == { MkErr(Absent(0), Present("EREQUEST"), Present("boom"), Present("trace")),
                  MkErr(Absent(0), Present("ETIMEOUT"), Present(""), Present("trace")) }
TypeErrorObj == MkErr(Absent(0), Absent(""), Present("Cannot read properties of undefined"),
                      Present("trace"))

\* console.error('Database error:', { routine, error: error.message, parameters })
DbLog(e) == [kind |-> "log", by |-> "dbRequest", code |-> "", message |-> e.message.v]

NoDbOut == [kind |-> "none", cause |-> "none", result |-> <<>>, value |-> <<>>, error |-> NoErr]
Threw(cause, rs, e)   == [kind |-> "threw", cause |-> cause, result |-> rs, value |-> <<>>, error |-> e]
Returned(rs, shaped)  == [kind |-> "returned", cause |-> "none", result |-> rs, value |-> shaped,
                          error |-> NoErr]

NoSqlRequest == [scope |-> "none", inputs |-> {}]
\* transaction ? new sql.Request(transaction) : new sql.Request(currentPool),
\* then request.input(key, parameters[key]) for every key
NewRequest(args) == [scope |-> IF args.transaction THEN "transaction" ELSE "pool",
                     inputs |-> DOMAIN args.parameters]

\* catch (error) { console.error(...); throw error; }
CatchAndRethrow(cause, rs, e) ==
    /\ events' = Append(events, DbLog(e))
    /\ dbOut' = Threw(cause, rs, e)
    /\ dbpc' = "threw"

\* dbRequest up to its first suspension: await getPool(), and when the pool
\* is already there, on to request.execute(routine).
DbRequestCall ==
    /\ dbpc = "idle"
    /\ IF pool = 0
       THEN /\ ConnectInvoked
            /\ dbpc' = "connecting"
            /\ UNCHANGED request
       ELSE /\ request' = NewRequest(dbArgs)
            /\ dbpc' = "executing"
            /\ UNCHANGED connectCalls
    /\ UNCHANGED <<pool, pc, got, poolsCreated, dbArgs, dbOut, crudVars, errVars>>

DbConnectResolve ==
    /\ dbpc = "connecting"
    /\ ConnectResolved
    /\ request' = NewRequest(dbArgs)
    /\ dbpc' = "executing"
    /\ UNCHANGED <<pc, got, connectCalls, dbArgs, dbOut, crudVars, errVars>>

DbConnectReject(e) ==
    /\ dbpc = "connecting"
    /\ CatchAndRethrow("connect", <<>>, e)
    /\ UNCHANGED <<poolVars, dbArgs, request, crudVars, nodeEnv, err, response>>

\* request.execute resolves with the routine's result sets; the switch shapes them.
DbExecuteResolve(rs) ==
    /\ dbpc = "executing"
    /\ LET shaped == ShapeResult(dbArgs.expectedReturn, DriverResult(rs), dbArgs.names) IN
       IF shaped.kind = "TypeError"
       THEN CatchAndRethrow("shape", rs, TypeErrorObj)
       ELSE /\ dbOut' = Returned(rs, shaped)
            /\ dbpc' = "returned"
            /\ UNCHANGED events
    /\ UNCHANGED <<poolVars, dbArgs, request, crudVars, nodeEnv, err, response>>

DbExecuteReject(e) ==
    /\ dbpc = "executing"
    /\ CatchAndRethrow("execute", <<>>, e)
    /\ UNCHANGED <<poolVars, dbArgs, request, crudVars, nodeEnv, err, response>>

\* app.use(errorMiddleware): the failure dbRequest rethrew reaches the
\* boundary middleware, which logs it and answers the request.
HandleFailure ==
    /\ dbpc = "threw"
    /\ err' = dbOut.error
    /\ events' = events \o MiddlewareEvents(dbOut.error, nodeEnv)
    /\ response' = [sent |-> TRUE, status |-> StatusCodeOf(dbOut.error),
                    body |-> ErrorResponseOf(dbOut.error, nodeEnv)]
    /\ dbpc' = "answered"
    /\ UNCHANGED <<poolVars, dbArgs, request, dbOut, crudVars, nodeEnv>>

DbParameters == { <<>>, [id |-> Num(3)] }
DbArgSets == [expectedReturn : ExpectedReturns, names : NameLists,
              transaction : BOOLEAN, parameters : DbParameters]
NoDbArgs == [expectedReturn |-> "None", names |-> NoNames, transaction |-> FALSE,
             parameters |-> <<>>]

(***************************************************************************)
(* Idle values of the parts a specification does not exercise              *)
(***************************************************************************)
NoRequest  == [params |-> <<>>, query |-> <<>>, body |-> <<>>]

PoolIdle == /\ pool = 0
            /\ pc = [c \in Callers |-> "idle"]
            /\ got = [c \in Callers |-> 0]
            /\ connectCalls = 0
            /\ poolsCreated = 0
CrudIdle == req = NoRequest /\ vout = NoTuple
ErrIdle  == /\ nodeEnv = "development"
            /\ err = NoErr
            /\ events = <<>>
            /\ response = NoResponse
DbIdle   == dbArgs = NoDbArgs /\ dbpc = "idle" /\ request = NoSqlRequest /\ dbOut = NoDbOut

(***************************************************************************)
(* Pool acquisition: concurrent request tasks calling getPool              *)
(***************************************************************************)
InitPool == PoolIdle /\ CrudIdle /\ ErrIdle /\ DbIdle

NextPool == \E c \in Callers :
                \/ GetPool(c)
                \/ ConnectResolve(c)
                \/ ConnectReject(c)

SpecPool == InitPool /\ [][NextPool]_vars

(***************************************************************************)
(* Error boundary: one failure handed to errorMiddleware                   *)
(***************************************************************************)
InitErr == /\ err \in ErrObjects
           /\ nodeEnv \in Envs
           /\ events = <<>>
           /\ response = NoResponse
           /\ PoolIdle /\ CrudIdle /\ DbIdle

NextErr == ErrorMiddleware

SpecErr == InitErr /\ [][NextErr]_vars

(***************************************************************************)
(* Gateway: one dbRequest call of a request, up to the error boundary      *)
(***************************************************************************)
InitDb == /\ dbArgs \in DbArgSets
          /\ dbpc = "idle" /\ request = NoSqlRequest /\ dbOut = NoDbOut
          /\ \/ PoolIdle
             \/ /\ pool = 1 /\ poolsCreated = 1 /\ connectCalls = 1
                /\ pc = [c \in Callers |-> "idle"]
                /\ got = [c \in Callers |-> 0]
          /\ nodeEnv \in Envs
          /\ err = NoErr /\ events = <<>> /\ response = NoResponse
          /\ CrudIdle

NextDb == \/ DbRequestCall
          \/ DbConnectResolve
          \/ \E e \in DriverErrors : DbConnectReject(e)
          \/ \E rs \in RoutineResults : DbExecuteResolve(rs)
          \/ \E e \in DriverErrors : DbExecuteReject(e)
          \/ HandleFailure

SpecDb == InitDb /\ [][NextDb]_vars

(***************************************************************************)
(* Validation pipeline: one request through one of the four entry points   *)
(***************************************************************************)
InitCrud == /\ req \in Requests
            /\ vout = NoTuple
            /\ PoolIdle /\ ErrIdle /\ DbIdle

NextCrud == \E schema \in Schemas :
                \/ Create(schema)
                \/ Read(schema)
                \/ Update(schema)
                \/ Delete(schema)

SpecCrud == InitCrud /\ [][NextCrud]_vars

(***************************************************************************)
(* Properties                                                              *)
(***************************************************************************)

\* C1: concurrent first-time getPool() calls invoke the underlying connect
\* once: at most one connect is ever in flight, at most one pool is ever
\* created, and all callers that were handed a pool were handed the same one.
C1_SingleConnect ==
    /\ Cardinality({ c \in Callers : pc[c] = "connecting" }) <= 1
    /\ poolsCreated <= 1
    /\ \A c, d \in Callers : (got[c] # 0 /\ got[d] # 0) => got[c] = got[d]

\* C5: a failed connect leaves the shared pool as it was, and once the pool
\* is set no later step replaces it, so every later getPool() returns it.
C5_PoolKeptOnceSet ==
    [][ /\ (pool # 0 => pool' = pool)
        /\ \A c \in Callers : (pc[c] = "connecting" /\ pc'[c] = "threw") => pool' = pool ]_vars

Satisfies(schema, input) ==
    \A i \in 1..Len(schema.shape) :
        CheckField(schema.shape[i].type, Get(input, schema.shape[i].key)).ok

C3_NeverRaises ==
    (vout.kind # "none" /\ ~(vout.schema.kind = "object" /\ Satisfies(vout.schema, vout.input)))
        => /\ vout.kind = "resolved"
           /\ vout.first.t = "null"
           /\ vout.second.t = "object"
           /\ vout.second.details.t = "array"

IdOnly == [kind |-> "object", shape |-> <<[key |-> "id", type |-> "zFK"]>>, thrown |-> "none"]

\* C4: for every key the schema is given the body's value if the body has
\* the key, else the query's, else the path parameter's, and a key no source
\* has is not passed; path {id:"1"}, query {id:"2"}, body {id:"3"} validates
\* with id = 3.
C4_MergePrecedence ==
    vout.kind # "none" =>
        /\ \A k \in Keys :
              /\ Has(vout.input, k) <=> (Has(req.body, k) \/ Has(req.query, k) \/ Has(req.params, k))
              /\ Has(req.body, k) => vout.input[k] = req.body[k]
              /\ (~Has(req.body, k) /\ Has(req.query, k)) => vout.input[k] = req.query[k]
              /\ (~Has(req.body, k) /\ ~Has(req.query, k) /\ Has(req.params, k))
                    => vout.input[k] = req.params[k]
        /\ ( /\ Get(req.params, "id") = Str(<<"1">>)
             /\ Get(req.query, "id") = Str(<<"2">>)
             /\ Get(req.body, "id") = Str(<<"3">>)
             /\ vout.schema = IdOnly )
              => /\ vout.kind = "resolved"
                 /\ vout.first.t = "object"
                 /\ vout.first.params["id"] = Num(3)

C4_Witness ==
    /\ vout.kind = "resolved"
    /\ vout.schema = IdOnly
    /\ Get(req.params, "id") = Str(<<"1">>)
    /\ Get(req.query, "id") = Str(<<"2">>)
    /\ Get(req.body, "id") = Str(<<"3">>)
    /\ Has(req.query, "name") /\ ~Has(req.body, "name") /\ ~Has(req.params, "name")
    /\ vout.input["name"] = req.query["name"]
    /\ vout.first.t = "object"
    /\ vout.first.params["id"] = Num(3)

ExecuteResolved == dbOut.kind = "returned" \/ (dbOut.kind = "threw" /\ dbOut.cause = "shape")

\* C7: with expectedReturn = Single, once the routine has returned, dbRequest
\* returns the first record of the first result set when there is one, and
\* undefined, without failing, when the first result set is empty or there
\* is no result set at all.
C7_SingleNeverFails ==
    (dbArgs.expectedReturn = "Single" /\ ExecuteResolved) =>
        /\ dbOut.kind = "returned"
        /\ IF Len(dbOut.result) > 0 /\ Len(dbOut.result[1]) > 0
           THEN dbOut.value.shape = "row" /\ dbOut.value.v = dbOut.result[1][1]
           ELSE dbOut.value.shape = "undefined"

Labelled == dbArgs.expectedReturn = "Multi" /\ dbArgs.names.given /\ Len(dbArgs.names.list) > 0

Min(a, b) == IF a < b THEN a ELSE b

\* C8 as stated: with Multi and N >= 1 labels over M result sets, label[i]
\* maps to result set i for every i < min(N, M), labels M..N-1 map to
\* nothing, no failure is raised; without labels the result sets are returned
\* in order.
C8_LabelsPositional ==
    (dbArgs.expectedReturn = "Multi" /\ ExecuteResolved) =>
        /\ dbOut.kind = "returned"
        /\ IF Labelled
           THEN LET names == dbArgs.names.list
                    sets  == dbOut.result
                IN /\ dbOut.value.shape = "named"
                   /\ \A i \in 1..Min(Len(names), Len(sets)) :
                         dbOut.value.v[names[i]] = Array(sets[i])
                   /\ \A i \in (Len(sets) + 1)..Len(names) :
                         dbOut.value.v[names[i]] = Undefined
           ELSE dbOut.value.shape = "recordsets" /\ dbOut.value.v = dbOut.result

LastIndexOf(names, n) == CHOOSE i \in 1..Len(names) :
                             names[i] = n /\ \A j \in (i + 1)..Len(names) : names[j] # n

\* C8 as amended: with Multi and N >= 1 labels over M result sets, the
\* mapping has exactly the labels as keys and each label maps to the result
\* set at the position of its last occurrence in the list, or to nothing when
\* that position is M or beyond (so with distinct labels label[i] maps to
\* result set i for i < min(N, M) and labels M..N-1 map to nothing); no
\* failure is raised; without labels the result sets are returned in order.
C8_LabelsLastWins ==
    (dbArgs.expectedReturn = "Multi" /\ ExecuteResolved) =>
        /\ dbOut.kind = "returned"
        /\ IF Labelled
           THEN LET names == dbArgs.names.list
                    sets  == dbOut.result
                IN /\ dbOut.value.shape = "named"
                   /\ DOMAIN dbOut.value.v = { names[i] : i \in 1..Len(names) }
                   /\ \A i \in 1..Len(names) :
                         i = LastIndexOf(names, names[i]) =>
                            dbOut.value.v[names[i]] =
                               (IF i <= Len(sets) THEN Array(sets[i]) ELSE Undefined)
           ELSE dbOut.value.shape = "recordsets" /\ dbOut.value.v = dbOut.result

C8_Witness ==
    /\ Labelled
    /\ dbOut.kind = "returned"
    /\ dbArgs.names.list = <<"a", "b">>
    /\ Len(dbOut.result) = 1
    /\ dbOut.value.v["a"] = Array(dbOut.result[1])
    /\ dbOut.value.v["b"] = Undefined

LogsOf(evs)  == SelectSeq(evs, LAMBDA e : e.kind = "log")
SendsOf(evs) == SelectSeq(evs, LAMBDA e : e.kind = "send")

\* C9: a failure of a dbRequest call reaches the boundary middleware
\* unchanged and is reported exactly once, by the middleware only, and the
\* request ends with exactly one error envelope.
C9_ReportedOnce ==
    dbpc = "answered" =>
        /\ err = dbOut.error
        /\ Len(LogsOf(events)) = 1
        /\ \A i \in 1..Len(events) : events[i].by = "errorMiddleware"
        /\ Len(SendsOf(events)) = 1

Fallbacks ==
    /\ response.body.success = FALSE
    /\ response.status = (IF err.statusCode.has /\ err.statusCode.v # 0
                          THEN err.statusCode.v ELSE 500)
    /\ response.body.error.code = (IF err.code.has /\ err.code.v # ""
                                   THEN err.code.v ELSE "INTERNAL_SERVER_ERROR")
    /\ response.body.error.message = (IF err.message.has /\ err.message.v # ""
                                      THEN err.message.v ELSE "An unexpected error occurred")

LoggedThenSentOnce ==
    /\ Len(events) = 2
    /\ events[1].kind = "log"
    /\ events[2].kind = "send"

\* C10 as stated: one response, sent after the log report; status, code and
\* message are the failure's own or the defaults when absent (a 0 or empty
\* value counting as absent); success is false; the stack trace is present in every non-production configuration
\* and absent in production.
C10_DetailsInEveryNonProduction ==
    response.sent =>
        /\ LoggedThenSentOnce
        /\ Fallbacks
        /\ (nodeEnv # "production" => response.body.error.details = err.stack)
        /\ (nodeEnv = "production" => ~response.body.error.details.has)

\* C10 as amended: one response, sent after the log report; status, code and
\* message are the failure's own or the defaults when absent (a 0 or empty
\* value counting as absent); success is false; the details are the failure's stack
\* trace when NODE_ENV is development, and absent in production and in every
\* other configuration.
C10_DetailsOnlyInDevelopment ==
    response.sent =>
        /\ LoggedThenSentOnce
        /\ Fallbacks
        /\ (nodeEnv = "development" => response.body.error.details = err.stack)
        /\ (nodeEnv # "development" => ~response.body.error.details.has)

C10_Witness ==
    /\ response.sent
    /\ nodeEnv = "test"
    /\ err.stack.has
    /\ ~err.statusCode.has
    /\ response.status = 500
    /\ ~response.body.error.details.has

====
